---- MODULE Spec2Model ----
(***************************************************************************)
(* A model of flairbot.py: a bot that reads its unread private messages,   *)
(* classifies them into "flair me" and "change flair text" requests, and   *)
(* reads and writes user flair on one subreddit.                           *)
(*                                                                         *)
(* Python strings that the code formats, splits, strips, lowers or parses  *)
(* are sequences of one-character strings, so that these conversions are   *)
(* computed and not assumed.  Python's None is the value None below.       *)
(***************************************************************************)
EXTENDS Integers, Sequences, FiniteSets, TLC

(***************************************************************************)
(* Bounds of the model.                                                    *)
(***************************************************************************)
\* number of unread messages in the inbox when the first run starts
MaxMsgs == 2
\* number of runs of the script (a run after a crash re-reads the inbox)
MaxRuns == 2
\* number of comments and submissions the service lists for a redditor
MaxThings == 1
MaxListed == 2

(***************************************************************************)
(* Python values.                                                          *)
(***************************************************************************)
\* None: no string has an element that is not a single character
None == <<"None">>

\* truthiness of an optional string: None and '' are falsy
Truthy(s) == s # None /\ s # <<>>

Whitespace == {" ", "\t", "\n", "\r", "\f"}
LineBreaks == {"\n", "\r", "\f"}

UpperChars == <<"A","B","C","D","E","F","G","H","I","J","K","L","M",
                "N","O","P","Q","R","S","T","U","V","W","X","Y","Z">>
LowerChars == <<"a","b","c","d","e","f","g","h","i","j","k","l","m",
                "n","o","p","q","r","s","t","u","v","w","x","y","z">>
DigitChars == <<"0","1","2","3","4","5","6","7","8","9">>

\* str.lower()
LowerChar(c) ==
    IF \E i \in 1..26 : UpperChars[i] = c
    THEN LowerChars[CHOOSE i \in 1..26 : UpperChars[i] = c]
    ELSE c

Lower(s) == [i \in 1..Len(s) |-> LowerChar(s[i])]

\* str.strip(): drop leading and trailing whitespace
RECURSIVE LStrip(_)
LStrip(s) ==
    IF s # <<>> /\ Head(s) \in Whitespace THEN LStrip(Tail(s)) ELSE s

RECURSIVE RStrip(_)
RStrip(s) ==
    IF s # <<>> /\ s[Len(s)] \in Whitespace
    THEN RStrip(SubSeq(s, 1, Len(s) - 1))
    ELSE s

Strip(s) == RStrip(LStrip(s))

\* str.split(sep) for a one-character separator: the list of fields
RECURSIVE SplitAcc(_, _, _)
SplitAcc(s, sep, cur) ==
    IF s = <<>> THEN <<cur>>
    ELSE IF Head(s) = sep THEN <<cur>> \o SplitAcc(Tail(s), sep, <<>>)
    ELSE SplitAcc(Tail(s), sep, Append(cur, Head(s)))

Split(s, sep) == SplitAcc(s, sep, <<>>)

\* str.splitlines(): the lines without their line breaks; no trailing
\* empty line, and [] for the empty string
RECURSIVE SplitLinesAcc(_, _)
SplitLinesAcc(s, cur) ==
    IF s = <<>> THEN (IF cur = <<>> THEN <<>> ELSE <<cur>>)
    ELSE IF Head(s) = "\r" /\ Len(s) > 1 /\ s[2] = "\n"
         THEN <<cur>> \o SplitLinesAcc(Tail(Tail(s)), <<>>)
    ELSE IF Head(s) \in LineBreaks THEN <<cur>> \o SplitLinesAcc(Tail(s), <<>>)
    ELSE SplitLinesAcc(Tail(s), Append(cur, Head(s)))

SplitLines(s) == SplitLinesAcc(s, <<>>)

\* '{}'.format(k) for an integer k >= 0: its decimal digits
RECURSIVE FormatInt(_)
FormatInt(k) ==
    IF k < 10 THEN <<DigitChars[k + 1]>>
    ELSE Append(FormatInt(k \div 10), DigitChars[(k % 10) + 1])

\* int(s) succeeds on a non-empty string of decimal digits; on the other
\* strings of this model (no sign, no blanks, no underscores occur in a
\* field) it raises ValueError
IsDigits(s) ==
    s # <<>> /\ \A i \in 1..Len(s) : \E d \in 1..10 : DigitChars[d] = s[i]

DigitValue(c) == (CHOOSE d \in 1..10 : DigitChars[d] = c) - 1

RECURSIVE ParseInt(_)
ParseInt(s) ==
    IF s = <<>> THEN 0
    ELSE 10 * ParseInt(SubSeq(s, 1, Len(s) - 1)) + DigitValue(s[Len(s)])

(***************************************************************************)
(* The tier table.                                                         *)
(***************************************************************************)
\* 'over-{}-karma'.format(k)
FlairClassOf(k) ==
    <<"o","v","e","r","-">> \o FormatInt(k) \o <<"-","k","a","r","m","a">>

FlairMapping(k, c) == [karma |-> k, flair_class |-> c]

\* the karma levels in the order the source lists them
KarmaLevels == <<500, 1000, 3000, 5000, 10000, 20000>>

\* sorted(..., key=lambda fm: fm.karma, reverse=True), a stable sort: an
\* element goes behind the elements whose key is not smaller
RECURSIVE InsertDesc(_, _)
InsertDesc(fm, sorted) ==
    IF sorted = <<>> THEN <<fm>>
    ELSE IF Head(sorted).karma >= fm.karma
         THEN <<Head(sorted)>> \o InsertDesc(fm, Tail(sorted))
         ELSE <<fm>> \o sorted

RECURSIVE SortedDesc(_)
SortedDesc(fms) ==
    IF fms = <<>> THEN <<>>
    ELSE InsertDesc(fms[Len(fms)], SortedDesc(SubSeq(fms, 1, Len(fms) - 1)))

FLAIR_MAPPINGS ==
    SortedDesc([i \in 1..Len(KarmaLevels) |->
                   FlairMapping(KarmaLevels[i], FlairClassOf(KarmaLevels[i]))])

\* flair_type = None: a mapping no karma level has
NoFlairType == [karma |-> -1, flair_class |-> None]

(***************************************************************************)
(* The computations of process_flair_requests.                             *)
(***************************************************************************)
\* PickKarma with the comparison that lets top win a tie
PickKarmaTieTop(top, new) ==
    IF top >= new
    THEN [karma |-> top, karma_type |-> "top"]
    ELSE [karma |-> new, karma_type |-> "new"]

\* if top_karma > new_karma: top wins, else new
PickKarma(top, new) ==
    IF top > new
    THEN [karma |-> top, karma_type |-> "top"]
    ELSE [karma |-> new, karma_type |-> "new"]

\* for flair in FLAIR_MAPPINGS: if karma >= flair.karma: take it and break
RECURSIVE ScanMappings(_, _)
ScanMappings(k, i) ==
    IF i > Len(FLAIR_MAPPINGS) THEN NoFlairType
    ELSE IF k >= FLAIR_MAPPINGS[i].karma THEN FLAIR_MAPPINGS[i]
    ELSE ScanMappings(k, i + 1)

\* the lookup with a strict comparison: a score on a level misses it
RECURSIVE ScanMappingsStrict(_, _)
ScanMappingsStrict(k, i) ==
    IF i > Len(FLAIR_MAPPINGS) THEN NoFlairType
    ELSE IF k > FLAIR_MAPPINGS[i].karma THEN FLAIR_MAPPINGS[i]
    ELSE ScanMappingsStrict(k, i + 1)

ResolveFlairTypeStrict(k) == ScanMappingsStrict(k, 1)

ResolveFlairType(k) == ScanMappings(k, 1)

\* the texts the replies end with
MsgTooLow == "Your calculated karma was too low for flair"
MsgSame == "Flair class is same as what you have now, so no changes."
MsgWorse == "New flair would be worse than current flair, so no changes."
MsgSetting == "Setting new flair for karma level"
MsgTextChanged == "Flair text changed. Your flair color has not changed."
MsgTextProblem == "There was a problem changing your flair text. Try again."
NoMsg == ""

\* int(flair_class.split('-')[1]) raises IndexError without a second
\* field and ValueError when the field is no number
ClassKarmaRaises(c) ==
    \/ Len(Split(c, "-")) < 2
    \/ ~IsDigits(Split(c, "-")[2])

ClassKarma(c) == ParseInt(Split(c, "-")[2])

\* the exception of int(flair_class.split('-')[1]) where it raises
ClassKarmaError(c) ==
    IF Len(Split(c, "-")) < 2 THEN "IndexError" ELSE "ValueError"

\* DecideFlair keeping the current class also when its number equals the
\* new level
DecideFlairGe(c, ft) ==
    IF Truthy(c)
    THEN IF c = ft.flair_class
         THEN [set_new_flair |-> FALSE, msg |-> MsgSame, raised |-> FALSE]
         ELSE IF ClassKarmaRaises(c)
              THEN [set_new_flair |-> FALSE, msg |-> NoMsg, raised |-> TRUE]
              ELSE IF ClassKarma(c) >= ft.karma
                   THEN [set_new_flair |-> FALSE, msg |-> MsgWorse,
                         raised |-> FALSE]
                   ELSE [set_new_flair |-> TRUE, msg |-> NoMsg,
                         raised |-> FALSE]
    ELSE [set_new_flair |-> TRUE, msg |-> NoMsg, raised |-> FALSE]

\* DecideFlair without the comparison: a class that differs is replaced
DecideFlairNoGuard(c, ft) ==
    IF Truthy(c) /\ c = ft.flair_class
    THEN [set_new_flair |-> FALSE, msg |-> MsgSame, raised |-> FALSE]
    ELSE [set_new_flair |-> TRUE, msg |-> NoMsg, raised |-> FALSE]

\* DecideFlair with the comparison turned round
DecideFlairReversed(c, ft) ==
    IF Truthy(c)
    THEN IF c = ft.flair_class
         THEN [set_new_flair |-> FALSE, msg |-> MsgSame, raised |-> FALSE]
         ELSE IF ClassKarmaRaises(c)
              THEN [set_new_flair |-> FALSE, msg |-> NoMsg, raised |-> TRUE]
              ELSE IF ClassKarma(c) < ft.karma
                   THEN [set_new_flair |-> FALSE, msg |-> MsgWorse,
                         raised |-> FALSE]
                   ELSE [set_new_flair |-> TRUE, msg |-> NoMsg,
                         raised |-> FALSE]
    ELSE [set_new_flair |-> TRUE, msg |-> NoMsg, raised |-> FALSE]

\* DecideFlair without the branch of the class that is the new one
DecideFlairNoSame(c, ft) ==
    IF Truthy(c)
    THEN IF ClassKarmaRaises(c)
         THEN [set_new_flair |-> FALSE, msg |-> NoMsg, raised |-> TRUE]
         ELSE IF ClassKarma(c) > ft.karma
              THEN [set_new_flair |-> FALSE, msg |-> MsgWorse,
                    raised |-> FALSE]
              ELSE [set_new_flair |-> TRUE, msg |-> NoMsg, raised |-> FALSE]
    ELSE [set_new_flair |-> TRUE, msg |-> NoMsg, raised |-> FALSE]

\* the branches under "if flair_class": what is replied without a change,
\* whether the flair is to be set, or the exception of the parse
DecideFlair(c, ft) ==
    IF Truthy(c)
    THEN IF c = ft.flair_class
         THEN [set_new_flair |-> FALSE, msg |-> MsgSame, raised |-> FALSE]
         ELSE IF ClassKarmaRaises(c)
              THEN [set_new_flair |-> FALSE, msg |-> NoMsg, raised |-> TRUE]
              ELSE IF ClassKarma(c) > ft.karma
                   THEN [set_new_flair |-> FALSE, msg |-> MsgWorse,
                         raised |-> FALSE]
                   ELSE [set_new_flair |-> TRUE, msg |-> NoMsg,
                         raised |-> FALSE]
    ELSE [set_new_flair |-> TRUE, msg |-> NoMsg, raised |-> FALSE]

(***************************************************************************)
(* calculate_subreddit_karma.                                              *)
(***************************************************************************)
\* the subreddit of the configuration (FLAIR_SUBREDDIT's default)
SUBREDDIT == "cscareerquestions"

ListingTypes == {"new", "top"}

\* SumKarma without the comparison of the subreddit
RECURSIVE SumKarmaAll(_, _)
SumKarmaAll(things, sub) ==
    IF things = <<>> THEN 0
    ELSE Head(things).score + SumKarmaAll(Tail(things), sub)

\* total_karma over itertools.chain(comments, submissions)
RECURSIVE SumKarma(_, _)
SumKarma(things, sub) ==
    IF things = <<>> THEN 0
    ELSE (IF Head(things).subreddit = sub THEN Head(things).score ELSE 0)
         + SumKarma(Tail(things), sub)

\* CalculateSubredditKarma without the check of the listing type
CalculateSubredditKarmaAnyType(listings, listing_type) ==
    [raised |-> FALSE,
     total |-> SumKarma(listings[listing_type].comments
                        \o listings[listing_type].submissions, SUBREDDIT)]

\* listings: for each listing type the redditor's comments and submissions
CalculateSubredditKarma(listings, listing_type) ==
    IF listing_type \notin ListingTypes
    THEN [raised |-> TRUE, total |-> 0]
    ELSE [raised |-> FALSE,
          total |-> SumKarma(listings[listing_type].comments
                             \o listings[listing_type].submissions, SUBREDDIT)]

(***************************************************************************)
(* The environment: redditors, their messages, flairs and contributions.   *)
(***************************************************************************)
Users == {"alice", "bob"}

\* msg.author of a message without an author object (a mod invite)
NoAuthor == ""

SubjFlairMe == <<"f","l","a","i","r"," ","m","e">>
SubjFlairMeLoud == <<" ","F","l","a","i","r"," ","M","E"," ">>
SubjChangeText ==
    <<"c","h","a","n","g","e"," ","f","l","a","i","r"," ","t","e","x","t">>
SubjChangeTextLoud ==
    <<"C","h","a","n","g","e"," ","F","l","a","i","r"," ","T","e","x","t","\n">>
SubjHello == <<"h","e","l","l","o">>

BodyPlain == <<"Q","A">>
BodyTwoLines == <<" ","D","e","v"," ","\n","x"," ","y">>

Message(a, s, b) == [author |-> a, subject |-> s, body |-> b]

\* the messages an inbox of this model is made of; an inbox may hold the
\* same message more than once
MessageCatalogue ==
    { Message("alice", SubjFlairMeLoud, BodyPlain),
      Message("alice", SubjChangeTextLoud, BodyTwoLines),
      Message("bob", SubjFlairMe, BodyPlain),
      Message(NoAuthor, SubjFlairMe, BodyPlain),
      Message("alice", SubjHello, BodyPlain) }

RECURSIVE SeqsUpTo(_, _)
SeqsUpTo(S, n) ==
    IF n = 0 THEN {<<>>}
    ELSE LET shorter == SeqsUpTo(S, n - 1)
         IN  shorter \cup {Append(q, x) : q \in shorter, x \in S}

\* the inboxes a first run may find: MaxMsgs unread messages
Inboxes == {q \in SeqsUpTo(MessageCatalogue, MaxMsgs) : Len(q) = MaxMsgs}

TextDev == <<"D","e","v">>
ClassMod == <<"m","o","d">>
ClassTeam == <<"t","e","a","m","-","b","l","u","e">>
ClassLevel == <<"l","v","l","-","1","0","0","0">>

Flair(c, t) == [flair_css_class |-> c, flair_text |-> t]

TierClasses == {FLAIR_MAPPINGS[i].flair_class : i \in 1..Len(FLAIR_MAPPINGS)}

\* the flair classes a user of the subreddit may carry
AllClasses == {None, <<>>, ClassMod, ClassTeam, ClassLevel} \cup TierClasses

\* the flairs the first requester starts a run of the main model with
InitFlairs ==
    { Flair(None, None), Flair(FlairClassOf(500), TextDev),
      Flair(FlairClassOf(3000), None), Flair(ClassMod, None) }

Thing(sub, sc) == [subreddit |-> sub, score |-> sc]

\* the comments and submissions a listing of this model is made of
ThingCatalogue ==
    {Thing(SUBREDDIT, 1200), Thing("CSCareerQuestions", 1200)}

ThingLists == SeqsUpTo(ThingCatalogue, MaxThings)

\* what the service lists for a redditor in one order
Listing ==
    {l \in [comments : ThingLists, submissions : ThingLists] :
        Len(l.comments) + Len(l.submissions) <= MaxThings}

(***************************************************************************)
(* The state.                                                              *)
(***************************************************************************)
Procs == {1, 2}

VARIABLES
    inbox,              \* the messages of the bot's inbox, in listing order
    read,               \* read[i]: message i is marked read
    replies,            \* replies[i]: the replies sent to message i
    flair,              \* flair[u]: the subreddit's flair of user u
    runs,               \* number of runs started
    pc,                 \* pc[p]: where run p stands
    flair_requests,     \* check_pms: author -> msg, in insertion order
    flair_text_changes, \* check_pms: author -> msg, in insertion order
    ignored_messages,   \* check_pms: the messages to mark read at once
    pos,                \* position of the loop over the dict in process
    top_karma, new_karma, karma, karma_type, flair_type,
    flair_class,        \* current_flair['flair_css_class'] as read
    flair_text,         \* current_flair['flair_text'] as read
    new_flair_text,     \* process_flair_text_requests: the first line
    set_new_flair,
    success,            \* what change_flair_text returned
    contributions,      \* what the service lists of the requester's comments
                        \* and submissions, where a specification fixes it
    listing_type        \* the argument of a call of calculate_subreddit_karma
                        \* that is made on its own

calls == <<contributions, listing_type>>
globals == <<calls, inbox, read, replies, flair, runs>>
dicts == <<flair_requests, flair_text_changes, ignored_messages>>
karmas == <<top_karma, new_karma, karma, karma_type, flair_type>>
locals == <<flair_class, flair_text, new_flair_text, set_new_flair, success>>
vars == <<globals, pc, dicts, pos, karmas, locals>>

\* the exceptions that end a run: of the parse of a flair class (line 173),
\* of the first line of an empty body (line 96), of the flair write of
\* process_flair_requests (line 187), of an unsupported listing type
Exceptions == {"IndexError", "ValueError", "FlairSetError", "TypeError"}

Idle == {"idle", "done", "crashed"} \cup Exceptions

\* the message and the author the loop of run p is at
CurText(p) == flair_text_changes[p][pos[p]]
CurReq(p) == flair_requests[p][pos[p]]
AuthorOf(i) == inbox[i].author

(***************************************************************************)
(* check_pms.                                                              *)
(***************************************************************************)
HasAuthor(d, a) == \E k \in 1..Len(d) : AuthorOf(d[k]) = a

\* ClassifyOne without "author not in": a later request of an author is
\* taken as well
ClassifyOneNoDedup(i, acc) ==
    LET msg == inbox[i]
        subject == Lower(Strip(msg.subject))
    IN  IF msg.author = NoAuthor
        THEN [acc EXCEPT !.ignored = Append(@, i)]
        ELSE IF subject = SubjFlairMe
        THEN [acc EXCEPT !.requests = Append(@, i)]
        ELSE IF subject = SubjChangeText
        THEN [acc EXCEPT !.changes = Append(@, i)]
        ELSE [acc EXCEPT !.ignored = Append(@, i)]

\* ClassifyOne without "if not msg.author": a message without author is
\* classified by its subject
ClassifyOneAnyAuthor(i, acc) ==
    LET msg == inbox[i]
        subject == Lower(Strip(msg.subject))
    IN  IF subject = SubjFlairMe /\ ~HasAuthor(acc.requests, msg.author)
        THEN [acc EXCEPT !.requests = Append(@, i)]
        ELSE IF subject = SubjChangeText /\ ~HasAuthor(acc.changes, msg.author)
        THEN [acc EXCEPT !.changes = Append(@, i)]
        ELSE [acc EXCEPT !.ignored = Append(@, i)]

\* one pass of "for msg in self.reddit.inbox.unread(limit=None)" over
\* message i, with the dicts and the list built so far
ClassifyOne(i, acc) ==
    LET msg == inbox[i]
        subject == Lower(Strip(msg.subject))
    IN  IF msg.author = NoAuthor
        THEN [acc EXCEPT !.ignored = Append(@, i)]
        ELSE IF subject = SubjFlairMe /\ ~HasAuthor(acc.requests, msg.author)
        THEN [acc EXCEPT !.requests = Append(@, i)]
        ELSE IF subject = SubjChangeText /\ ~HasAuthor(acc.changes, msg.author)
        THEN [acc EXCEPT !.changes = Append(@, i)]
        ELSE [acc EXCEPT !.ignored = Append(@, i)]

RECURSIVE ClassifyUpTo(_)
ClassifyUpTo(n) ==
    IF n = 0 THEN [requests |-> <<>>, changes |-> <<>>, ignored |-> <<>>]
    ELSE IF read[n] THEN ClassifyUpTo(n - 1)
    ELSE ClassifyOne(n, ClassifyUpTo(n - 1))

\* the classification over inbox.all() in place of inbox.unread()
RECURSIVE ClassifyAllUpTo(_)
ClassifyAllUpTo(n) ==
    IF n = 0 THEN [requests |-> <<>>, changes |-> <<>>, ignored |-> <<>>]
    ELSE ClassifyOne(n, ClassifyAllUpTo(n - 1))

ClassifyAll == ClassifyAllUpTo(Len(inbox))

Classify == ClassifyUpTo(Len(inbox))

\* where a run goes when the loop over the text requests is over, and
\* when the loop over the flair requests is over
AfterTexts(p) == IF flair_requests[p] = <<>> THEN "done" ELSE "fr_karma"

\* the variables of a loop body are assigned anew before the next iteration
\* reads them: they are cleared where the iteration ends
ResetLoop(p) ==
    /\ top_karma' = [top_karma EXCEPT ![p] = 0]
    /\ new_karma' = [new_karma EXCEPT ![p] = 0]
    /\ karma' = [karma EXCEPT ![p] = 0]
    /\ karma_type' = [karma_type EXCEPT ![p] = ""]
    /\ flair_type' = [flair_type EXCEPT ![p] = NoFlairType]
    /\ flair_class' = [flair_class EXCEPT ![p] = None]
    /\ flair_text' = [flair_text EXCEPT ![p] = None]
    /\ new_flair_text' = [new_flair_text EXCEPT ![p] = None]
    /\ set_new_flair' = [set_new_flair EXCEPT ![p] = FALSE]
    /\ success' = [success EXCEPT ![p] = FALSE]

\* a run starts: the unread messages are listed and classified
CheckPms(p) ==
    /\ pc[p] \in Idle
    /\ runs < MaxRuns
    /\ runs' = runs + 1
    /\ flair_requests' = [flair_requests EXCEPT ![p] = Classify.requests]
    /\ flair_text_changes' = [flair_text_changes EXCEPT ![p] = Classify.changes]
    /\ ignored_messages' = [ignored_messages EXCEPT ![p] = Classify.ignored]
    /\ pos' = [pos EXCEPT ![p] = 1]
    /\ ResetLoop(p)
    /\ pc' = [pc EXCEPT ![p] = "mark_ignored"]
    /\ UNCHANGED <<calls, inbox, read, replies, flair>>

\* MarkIgnored with the flair requests of the batch processed first
MarkIgnoredScoresFirst(p) ==
    /\ pc[p] = "mark_ignored"
    /\ read' = [i \in DOMAIN read |->
                  read[i] \/ \E k \in 1..Len(ignored_messages[p]) :
                                 ignored_messages[p][k] = i]
    /\ pc' = [pc EXCEPT ![p] =
                IF flair_requests[p] # <<>> THEN "fr_karma"
                ELSE IF flair_text_changes[p] = <<>> THEN "done" ELSE "tr_get"]
    /\ UNCHANGED <<calls, inbox, replies, flair, runs, dicts, pos, karmas,
                   locals>>

\* self.reddit.inbox.mark_read(ignored_messages)
MarkIgnored(p) ==
    /\ pc[p] = "mark_ignored"
    /\ read' = [i \in DOMAIN read |->
                  read[i] \/ \E k \in 1..Len(ignored_messages[p]) :
                                 ignored_messages[p][k] = i]
    /\ pc' = [pc EXCEPT ![p] =
                IF flair_text_changes[p] = <<>> THEN AfterTexts(p) ELSE "tr_get"]
    /\ UNCHANGED <<calls, inbox, replies, flair, runs, dicts, pos, karmas, locals>>

\* the run ends where it stands
EndRun(p, how) ==
    /\ pc' = [pc EXCEPT ![p] = how]
    /\ flair_requests' = [flair_requests EXCEPT ![p] = <<>>]
    /\ flair_text_changes' = [flair_text_changes EXCEPT ![p] = <<>>]
    /\ ignored_messages' = [ignored_messages EXCEPT ![p] = <<>>]
    /\ pos' = [pos EXCEPT ![p] = 1]
    /\ ResetLoop(p)

\* the process is killed
Abort(p) == EndRun(p, "crashed")

\* an exception that nothing catches leaves check_pms and ends the process
Raise(p, exc) == EndRun(p, exc)

Crash(p) ==
    /\ pc[p] \notin Idle
    /\ Abort(p)
    /\ UNCHANGED globals

(***************************************************************************)
(* process_flair_text_requests and change_flair_text.                      *)
(***************************************************************************)
\* the first line without strip()
FirstLineUntrimmed(body) == SplitLines(body)[1]

\* msg.body.splitlines()[0].strip()
FirstLine(body) == Strip(SplitLines(body)[1])

\* the first line is extracted and change_flair_text reads the class
TR_GetFlair(p) ==
    /\ pc[p] = "tr_get"
    /\ LET msg == inbox[CurText(p)]
       IN  IF SplitLines(msg.body) = <<>>
           THEN Raise(p, "IndexError") /\ UNCHANGED globals
           ELSE /\ new_flair_text' =
                       [new_flair_text EXCEPT ![p] = FirstLine(msg.body)]
                /\ flair_class' =
                       [flair_class EXCEPT ![p] =
                            flair[msg.author].flair_css_class]
                /\ pc' = [pc EXCEPT ![p] = "tr_set"]
                /\ UNCHANGED <<globals, dicts, pos, karmas, flair_text,
                               set_new_flair, success>>

\* what subreddit.flair.set(redditor, new_flair_text, flair_class) stores
TextFlairWritten(p) == Flair(flair_class[p], new_flair_text[p])

TR_SetFlair(p) ==
    /\ pc[p] = "tr_set"
    /\ flair' = [flair EXCEPT ![AuthorOf(CurText(p))] = TextFlairWritten(p)]
    /\ success' = [success EXCEPT ![p] = TRUE]
    /\ pc' = [pc EXCEPT ![p] = "tr_reply"]
    /\ UNCHANGED <<calls, inbox, read, replies, runs, dicts, pos, karmas,
                   flair_class, flair_text, new_flair_text, set_new_flair>>

\* the write raises: the exception is caught and False returned
TR_SetFlairFails(p) ==
    /\ pc[p] = "tr_set"
    /\ success' = [success EXCEPT ![p] = FALSE]
    /\ pc' = [pc EXCEPT ![p] = "tr_reply"]
    /\ UNCHANGED <<globals, dicts, pos, karmas,
                   flair_class, flair_text, new_flair_text, set_new_flair>>

\* the reply of success whatever change_flair_text returned
TextReplyAlways(p) == MsgTextChanged

\* if success: ... else: ... (lines 99-102)
TextReply(p) == IF success[p] THEN MsgTextChanged ELSE MsgTextProblem

TR_Reply(p) ==
    /\ pc[p] = "tr_reply"
    /\ replies' = [replies EXCEPT ![CurText(p)] = Append(@, TextReply(p))]
    /\ pc' = [pc EXCEPT ![p] = "tr_mark"]
    /\ UNCHANGED <<calls, inbox, read, flair, runs, dicts, pos, karmas, locals>>

TR_MarkRead(p) ==
    /\ pc[p] = "tr_mark"
    /\ read' = [read EXCEPT ![CurText(p)] = TRUE]
    /\ IF pos[p] < Len(flair_text_changes[p])
       THEN /\ pos' = [pos EXCEPT ![p] = @ + 1]
            /\ pc' = [pc EXCEPT ![p] = "tr_get"]
       ELSE /\ pos' = [pos EXCEPT ![p] = 1]
            /\ pc' = [pc EXCEPT ![p] = AfterTexts(p)]
    /\ ResetLoop(p)
    /\ UNCHANGED <<calls, inbox, replies, flair, runs, dicts>>

(***************************************************************************)
(* process_flair_requests.                                                 *)
(***************************************************************************)
\* top_karma = self.calculate_subreddit_karma(msg.author, 'top'): the
\* service lists what it lists
\* the call of line 135 with t for its listing type: the TypeError of
\* calculate_subreddit_karma is caught nowhere
FR_KarmaTopAs(p, listings, t) ==
    /\ pc[p] = "fr_karma"
    /\ LET r == CalculateSubredditKarma(listings, t)
       IN  IF r.raised
           THEN Raise(p, "TypeError") /\ UNCHANGED globals
           ELSE /\ top_karma' = [top_karma EXCEPT ![p] = r.total]
                /\ pc' = [pc EXCEPT ![p] = "fr_karma_new"]
                /\ UNCHANGED <<globals, dicts, pos, new_karma, karma,
                               karma_type, flair_type, locals>>

FR_KarmaTopOf(p, listings) == FR_KarmaTopAs(p, listings, "top")

FR_KarmaTop(p) ==
    \E top \in Listing : FR_KarmaTopOf(p, [t \in ListingTypes |-> top])

\* new_karma = self.calculate_subreddit_karma(msg.author, 'new')
FR_KarmaNewOf(p, listings) ==
    /\ pc[p] = "fr_karma_new"
    /\ new_karma' = [new_karma EXCEPT ![p] =
                         CalculateSubredditKarma(listings, "new").total]
    /\ pc' = [pc EXCEPT ![p] = "fr_resolve"]
    /\ UNCHANGED <<globals, dicts, pos, top_karma, karma, karma_type,
                   flair_type, locals>>

FR_KarmaNew(p) ==
    \E new \in Listing : FR_KarmaNewOf(p, [t \in ListingTypes |-> new])

\* the larger total is picked and looked up in FLAIR_MAPPINGS
FR_Resolve(p) ==
    /\ pc[p] = "fr_resolve"
    /\ LET pick == PickKarma(top_karma[p], new_karma[p])
       IN  /\ karma' = [karma EXCEPT ![p] = pick.karma]
           /\ karma_type' = [karma_type EXCEPT ![p] = pick.karma_type]
           /\ flair_type' = [flair_type EXCEPT ![p] =
                                 ResolveFlairType(pick.karma)]
           /\ pc' = [pc EXCEPT ![p] =
                       IF ResolveFlairType(pick.karma) = NoFlairType
                       THEN "fr_too_low" ELSE "fr_get"]
    /\ set_new_flair' = [set_new_flair EXCEPT ![p] = FALSE]
    /\ UNCHANGED <<globals, dicts, pos, top_karma, new_karma,
                   flair_class, flair_text, new_flair_text, success>>

\* FR_TooLow without the reply
FR_TooLowNoReply(p) ==
    /\ pc[p] = "fr_too_low"
    /\ pc' = [pc EXCEPT ![p] = "fr_mark"]
    /\ UNCHANGED <<globals, dicts, pos, karmas, locals>>

\* if not flair_type: reply that nothing will change
FR_TooLow(p) ==
    /\ pc[p] = "fr_too_low"
    /\ replies' = [replies EXCEPT ![CurReq(p)] = Append(@, MsgTooLow)]
    /\ pc' = [pc EXCEPT ![p] = "fr_mark"]
    /\ UNCHANGED <<calls, inbox, read, flair, runs, dicts, pos, karmas, locals>>

\* FR_GetFlair without the read: the class and the text are what the run
\* holds from before
FR_GetFlairCached(p) ==
    /\ pc[p] = "fr_get"
    /\ pc' = [pc EXCEPT ![p] = "fr_decide"]
    /\ UNCHANGED <<globals, dicts, pos, karmas, locals>>

\* current_flair = next(sub.flair(redditor=author))
FR_GetFlair(p) ==
    /\ pc[p] = "fr_get"
    /\ flair_class' = [flair_class EXCEPT ![p] =
                           flair[AuthorOf(CurReq(p))].flair_css_class]
    /\ flair_text' = [flair_text EXCEPT ![p] =
                          flair[AuthorOf(CurReq(p))].flair_text]
    /\ pc' = [pc EXCEPT ![p] = "fr_decide"]
    /\ UNCHANGED <<globals, dicts, pos, karmas, new_flair_text,
                   set_new_flair, success>>

\* the comparison with the current class; without a change it is replied
\* here, and an exception of the parse ends the run
FR_Decide(p) ==
    /\ pc[p] = "fr_decide"
    /\ LET d == DecideFlair(flair_class[p], flair_type[p])
       IN  IF d.raised
           THEN Raise(p, ClassKarmaError(flair_class[p])) /\ UNCHANGED globals
           ELSE /\ set_new_flair' = [set_new_flair EXCEPT ![p] = d.set_new_flair]
                /\ IF d.set_new_flair
                   THEN /\ pc' = [pc EXCEPT ![p] = "fr_set"]
                        /\ UNCHANGED replies
                   ELSE /\ pc' = [pc EXCEPT ![p] = "fr_mark"]
                        /\ replies' = [replies EXCEPT ![CurReq(p)] =
                                           Append(@, d.msg)]
                /\ UNCHANGED <<calls, inbox, read, flair, runs, dicts, pos, karmas,
                               flair_class, flair_text, new_flair_text,
                               success>>

\* the write with the text the flair holds at the write
ClassFlairWrittenFresh(p) ==
    Flair(flair_type[p].flair_class, flair[AuthorOf(CurReq(p))].flair_text)

\* the write without text=flair_text
ClassFlairWrittenNoText(p) == Flair(flair_type[p].flair_class, None)

\* what sub.flair.set(author, css_class=flair_type.flair_class,
\* text=flair_text) stores
ClassFlairWritten(p) == Flair(flair_type[p].flair_class, flair_text[p])

FR_SetFlair(p) ==
    /\ pc[p] = "fr_set"
    /\ flair' = [flair EXCEPT ![AuthorOf(CurReq(p))] = ClassFlairWritten(p)]
    /\ pc' = [pc EXCEPT ![p] = "fr_reply"]
    /\ UNCHANGED <<calls, inbox, read, replies, runs, dicts, pos, karmas, locals>>

\* the write raises: nothing catches the exception
FR_SetFlairFails(p) ==
    /\ pc[p] = "fr_set"
    /\ Raise(p, "FlairSetError")
    /\ UNCHANGED globals

FR_ReplySet(p) ==
    /\ pc[p] = "fr_reply"
    /\ replies' = [replies EXCEPT ![CurReq(p)] = Append(@, MsgSetting)]
    /\ pc' = [pc EXCEPT ![p] = "fr_mark"]
    /\ UNCHANGED <<calls, inbox, read, flair, runs, dicts, pos, karmas, locals>>

\* FR_MarkRead without msg.mark_read()
FR_MarkReadNoMark(p) ==
    /\ pc[p] = "fr_mark"
    /\ IF pos[p] < Len(flair_requests[p])
       THEN /\ pos' = [pos EXCEPT ![p] = @ + 1]
            /\ pc' = [pc EXCEPT ![p] = "fr_karma"]
       ELSE /\ pos' = [pos EXCEPT ![p] = 1]
            /\ pc' = [pc EXCEPT ![p] = "done"]
    /\ ResetLoop(p)
    /\ UNCHANGED <<globals, dicts>>

FR_MarkRead(p) ==
    /\ pc[p] = "fr_mark"
    /\ read' = [read EXCEPT ![CurReq(p)] = TRUE]
    /\ IF pos[p] < Len(flair_requests[p])
       THEN /\ pos' = [pos EXCEPT ![p] = @ + 1]
            /\ pc' = [pc EXCEPT ![p] = "fr_karma"]
       ELSE /\ pos' = [pos EXCEPT ![p] = 1]
            /\ pc' = [pc EXCEPT ![p] = "done"]
    /\ ResetLoop(p)
    /\ UNCHANGED <<calls, inbox, replies, flair, runs, dicts>>

(***************************************************************************)
(* The runs of the script, one after the other.                            *)
(***************************************************************************)
\* no specification of the contributions, no call made on its own
NoCalls ==
    /\ contributions = [t \in ListingTypes |->
                            [comments |-> <<>>, submissions |-> <<>>]]
    /\ listing_type = "top"

NoRun ==
    /\ pc = [p \in Procs |-> "idle"]
    /\ flair_requests = [p \in Procs |-> <<>>]
    /\ flair_text_changes = [p \in Procs |-> <<>>]
    /\ ignored_messages = [p \in Procs |-> <<>>]
    /\ pos = [p \in Procs |-> 1]
    /\ top_karma = [p \in Procs |-> 0]
    /\ new_karma = [p \in Procs |-> 0]
    /\ karma = [p \in Procs |-> 0]
    /\ karma_type = [p \in Procs |-> ""]
    /\ flair_type = [p \in Procs |-> NoFlairType]
    /\ flair_class = [p \in Procs |-> None]
    /\ flair_text = [p \in Procs |-> None]
    /\ new_flair_text = [p \in Procs |-> None]
    /\ set_new_flair = [p \in Procs |-> FALSE]
    /\ success = [p \in Procs |-> FALSE]

Init ==
    /\ inbox \in Inboxes
    /\ read = [i \in 1..Len(inbox) |-> FALSE]
    /\ replies = [i \in 1..Len(inbox) |-> <<>>]
    /\ \E f \in InitFlairs :
          flair = [u \in Users |-> IF u = "alice" THEN f ELSE Flair(None, None)]
    /\ runs = 0
    /\ NoRun
    /\ NoCalls

Step(p) ==
    \/ CheckPms(p)
    \/ MarkIgnored(p)
    \/ TR_GetFlair(p)
    \/ TR_SetFlair(p)
    \/ TR_SetFlairFails(p)
    \/ TR_Reply(p)
    \/ TR_MarkRead(p)
    \/ FR_KarmaTop(p)
    \/ FR_KarmaNew(p)
    \/ FR_Resolve(p)
    \/ FR_TooLow(p)
    \/ FR_GetFlair(p)
    \/ FR_Decide(p)
    \/ FR_SetFlair(p)
    \/ FR_SetFlairFails(p)
    \/ FR_ReplySet(p)
    \/ FR_MarkRead(p)
    \/ Crash(p)

Next == Step(1)

Spec == Init /\ [][Next]_vars

\* the runs in which the process is not killed and no call of the service
\* fails
NextNoFailure ==
    \/ CheckPms(1)
    \/ MarkIgnored(1)
    \/ TR_GetFlair(1)
    \/ TR_SetFlair(1)
    \/ TR_Reply(1)
    \/ TR_MarkRead(1)
    \/ FR_KarmaTop(1)
    \/ FR_KarmaNew(1)
    \/ FR_Resolve(1)
    \/ FR_TooLow(1)
    \/ FR_GetFlair(1)
    \/ FR_Decide(1)
    \/ FR_SetFlair(1)
    \/ FR_ReplySet(1)
    \/ FR_MarkRead(1)

SpecNoFailure == Init /\ [][NextNoFailure]_vars

(***************************************************************************)
(* One flair request from the point where both totals are known, for      *)
(* totals around every karma level and every flair class: the part of     *)
(* process_flair_requests that picks, resolves and decides.               *)
(***************************************************************************)
ScoreSamples ==
    {-20001, -500, -1, 0, 1}
    \cup UNION {{KarmaLevels[i] - 1, KarmaLevels[i], KarmaLevels[i] + 1} :
                   i \in 1..Len(KarmaLevels)}

InitPolicy ==
    /\ inbox = <<Message("alice", SubjFlairMeLoud, BodyPlain)>>
    /\ read = [i \in 1..1 |-> FALSE]
    /\ replies = [i \in 1..1 |-> <<>>]
    /\ \E c \in AllClasses :
          flair = [u \in Users |->
                      IF u = "alice" THEN Flair(c, TextDev) ELSE Flair(None, None)]
    /\ runs = 1
    /\ pc = [p \in Procs |-> IF p = 1 THEN "fr_resolve" ELSE "idle"]
    /\ flair_requests = [p \in Procs |-> IF p = 1 THEN <<1>> ELSE <<>>]
    /\ flair_text_changes = [p \in Procs |-> <<>>]
    /\ ignored_messages = [p \in Procs |-> <<>>]
    /\ pos = [p \in Procs |-> 1]
    /\ \E t \in ScoreSamples, n \in ScoreSamples :
          /\ top_karma = [p \in Procs |-> IF p = 1 THEN t ELSE 0]
          /\ new_karma = [p \in Procs |-> IF p = 1 THEN n ELSE 0]
    /\ karma = [p \in Procs |-> 0]
    /\ karma_type = [p \in Procs |-> ""]
    /\ flair_type = [p \in Procs |-> NoFlairType]
    /\ flair_class = [p \in Procs |-> None]
    /\ flair_text = [p \in Procs |-> None]
    /\ new_flair_text = [p \in Procs |-> None]
    /\ set_new_flair = [p \in Procs |-> FALSE]
    /\ success = [p \in Procs |-> FALSE]
    /\ NoCalls

NextPolicy ==
    \/ FR_Resolve(1)
    \/ FR_TooLow(1)
    \/ FR_GetFlair(1)
    \/ FR_Decide(1)

SpecPolicy == InitPolicy /\ [][NextPolicy]_vars

(***************************************************************************)
(* One flair request of a requester whose contributions stay what they    *)
(* are: runs that are killed and started again list the same comments and *)
(* submissions each time.                                                 *)
(***************************************************************************)
InitRetry ==
    /\ inbox = <<Message("alice", SubjFlairMeLoud, BodyPlain)>>
    /\ read = [i \in 1..1 |-> FALSE]
    /\ replies = [i \in 1..1 |-> <<>>]
    /\ \E f \in InitFlairs :
          flair = [u \in Users |-> IF u = "alice" THEN f ELSE Flair(None, None)]
    /\ runs = 0
    /\ NoRun
    /\ contributions \in [ListingTypes -> Listing]
    /\ listing_type = "top"

NextRetry ==
    \/ CheckPms(1)
    \/ MarkIgnored(1)
    \/ FR_KarmaTopOf(1, contributions)
    \/ FR_KarmaNewOf(1, contributions)
    \/ FR_Resolve(1)
    \/ FR_TooLow(1)
    \/ FR_GetFlair(1)
    \/ FR_Decide(1)
    \/ FR_SetFlair(1)
    \/ FR_ReplySet(1)
    \/ FR_MarkRead(1)
    \/ Crash(1)

SpecRetry == InitRetry /\ [][NextRetry]_vars

(***************************************************************************)
(* The two calls of calculate_subreddit_karma of one flair request, over  *)
(* listings with scores of either sign and subreddits that differ from    *)
(* the configured one by case or by name; the first call is made with     *)
(* each listing method of the service for its listing type.               *)
(***************************************************************************)
\* the listing methods of a redditor's comments and submissions
ListingMethods == {"new", "top", "hot"}

ListedCatalogue ==
    {Thing(SUBREDDIT, 5), Thing(SUBREDDIT, -5),
     Thing("CSCareerQuestions", 100), Thing("learnprogramming", 100)}

ListedLists == SeqsUpTo(ListedCatalogue, MaxListed)

ListedListing ==
    {l \in [comments : ListedLists, submissions : ListedLists] :
        Len(l.comments) + Len(l.submissions) <= MaxListed}

InitKarma ==
    /\ inbox = <<Message("alice", SubjFlairMeLoud, BodyPlain)>>
    /\ read = [i \in 1..1 |-> FALSE]
    /\ replies = [i \in 1..1 |-> <<>>]
    /\ flair = [u \in Users |-> Flair(None, None)]
    /\ runs = 1
    /\ pc = [p \in Procs |-> IF p = 1 THEN "fr_karma" ELSE "idle"]
    /\ flair_requests = [p \in Procs |-> IF p = 1 THEN <<1>> ELSE <<>>]
    /\ flair_text_changes = [p \in Procs |-> <<>>]
    /\ ignored_messages = [p \in Procs |-> <<>>]
    /\ pos = [p \in Procs |-> 1]
    /\ top_karma = [p \in Procs |-> 0]
    /\ new_karma = [p \in Procs |-> 0]
    /\ karma = [p \in Procs |-> 0]
    /\ karma_type = [p \in Procs |-> ""]
    /\ flair_type = [p \in Procs |-> NoFlairType]
    /\ flair_class = [p \in Procs |-> None]
    /\ flair_text = [p \in Procs |-> None]
    /\ new_flair_text = [p \in Procs |-> None]
    /\ set_new_flair = [p \in Procs |-> FALSE]
    /\ success = [p \in Procs |-> FALSE]
    /\ \E a \in ListedListing, b \in ListedListing :
          contributions = [m \in ListingMethods |-> IF m = "new" THEN b ELSE a]
    /\ listing_type \in ListingMethods

NextKarma ==
    \/ FR_KarmaTopAs(1, contributions, listing_type)
    \/ FR_KarmaNewOf(1, contributions)

SpecKarma == InitKarma /\ [][NextKarma]_vars

(***************************************************************************)
(* Two runs of the script at the same time: nothing keeps a second        *)
(* process from starting while the first is at work.  The first run has   *)
(* listed the inbox when it held the flair request alone; the text        *)
(* request of the same requester has come in since.                       *)
(***************************************************************************)
InitOverlap ==
    /\ inbox = <<Message("alice", SubjFlairMeLoud, BodyPlain),
                 Message("alice", SubjChangeTextLoud, BodyTwoLines)>>
    /\ read = [i \in 1..2 |-> FALSE]
    /\ replies = [i \in 1..2 |-> <<>>]
    /\ \E f \in {Flair(None, None), Flair(FlairClassOf(500), TextDev)} :
          flair = [u \in Users |-> IF u = "alice" THEN f ELSE Flair(None, None)]
    /\ runs = 1
    /\ pc = [p \in Procs |-> IF p = 1 THEN "mark_ignored" ELSE "idle"]
    /\ flair_requests = [p \in Procs |-> IF p = 1 THEN <<1>> ELSE <<>>]
    /\ flair_text_changes = [p \in Procs |-> <<>>]
    /\ ignored_messages = [p \in Procs |-> <<>>]
    /\ pos = [p \in Procs |-> 1]
    /\ top_karma = [p \in Procs |-> 0]
    /\ new_karma = [p \in Procs |-> 0]
    /\ karma = [p \in Procs |-> 0]
    /\ karma_type = [p \in Procs |-> ""]
    /\ flair_type = [p \in Procs |-> NoFlairType]
    /\ flair_class = [p \in Procs |-> None]
    /\ flair_text = [p \in Procs |-> None]
    /\ new_flair_text = [p \in Procs |-> None]
    /\ set_new_flair = [p \in Procs |-> FALSE]
    /\ success = [p \in Procs |-> FALSE]
    /\ NoCalls

NextOverlap == \E p \in Procs : Step(p)

SpecOverlap == InitOverlap /\ [][NextOverlap]_vars

(***************************************************************************)
(* What the claims are stated with.                                        *)
(***************************************************************************)
\* the tier table as the specification gives it: threshold and tier id
TierThresholds == {20000, 10000, 5000, 3000, 1000, 500}

TierId(t) ==
    CASE t = 500 -> <<"o","v","e","r","-","5","0","0","-","k","a","r","m","a">>
      [] t = 1000 -> <<"o","v","e","r","-","1","0","0","0","-","k","a","r","m","a">>
      [] t = 3000 -> <<"o","v","e","r","-","3","0","0","0","-","k","a","r","m","a">>
      [] t = 5000 -> <<"o","v","e","r","-","5","0","0","0","-","k","a","r","m","a">>
      [] t = 10000 ->
           <<"o","v","e","r","-","1","0","0","0","0","-","k","a","r","m","a">>
      [] t = 20000 ->
           <<"o","v","e","r","-","2","0","0","0","0","-","k","a","r","m","a">>

TierIds == {TierId(t) : t \in TierThresholds}

\* the threshold of the tier with id c
ThresholdOf(c) == CHOOSE t \in TierThresholds : TierId(t) = c

Qualifying(score) == {t \in TierThresholds : t <= score}

Greatest(S) == CHOOSE t \in S : \A u \in S : u <= t

MaxOf(a, b) == IF a >= b THEN a ELSE b

\* the run stands behind the lookup of the tier
Resolved(p) == pc[p] \in {"fr_too_low", "fr_get", "fr_decide", "fr_set", "fr_mark"}

\* the run stands behind the comparison with the current class
Decided(p) == pc[p] \in {"fr_set", "fr_mark"} /\ flair_type[p] # NoFlairType

LastReply(i) == replies[i][Len(replies[i])]

\* C2: for every score, tier resolution returns the tier with the greatest
\* minimum_score <= score, and none exactly when score < 500
C2_ResolveGreatestTier ==
    Resolved(1) =>
        LET k == karma[1]
            ft == flair_type[1]
        IN  /\ (ft = NoFlairType) <=> (k < 500)
            /\ (ft = NoFlairType) <=> (Qualifying(k) = {})
            /\ Qualifying(k) # {} =>
                  /\ ft.karma = Greatest(Qualifying(k))
                  /\ ft.flair_class = TierId(Greatest(Qualifying(k)))

C2_Witness ==
    /\ pc[1] = "fr_get"
    /\ karma[1] = 500
    /\ flair_type[1] = [karma |-> 500, flair_class |-> TierId(500)]

\* C6: the score fed to tier resolution is max(top_karma, new_karma);
\* karma_type is 'top' only when top_karma > new_karma, and 'new' on a tie
C6_MaxWithTieToNew ==
    Resolved(1) =>
        LET t == top_karma[1]
            n == new_karma[1]
        IN  /\ karma[1] = MaxOf(t, n)
            /\ (karma_type[1] = "top") <=> (t > n)
            /\ (t = n) => (karma_type[1] = "new")
            /\ karma_type[1] \in {"top", "new"}
            /\ (flair_type[1] = NoFlairType) <=> (Qualifying(MaxOf(t, n)) = {})
            /\ Qualifying(MaxOf(t, n)) # {} =>
                  flair_type[1].karma = Greatest(Qualifying(MaxOf(t, n)))

C6_Witness ==
    /\ pc[1] = "fr_get"
    /\ top_karma[1] = 1000
    /\ new_karma[1] = 1000
    /\ karma_type[1] = "new"
    /\ karma[1] = 1000

\* the number a flair class carries in its second field, for the classes
\* that carry one
NumberedClasses == TierIds \cup {ClassLevel}

NumberIn(c) == IF c = ClassLevel THEN 1000 ELSE ThresholdOf(c)

\* the outcome the run has come to
Outcome(p) ==
    IF pc[p] = "fr_set" THEN "APPLIED"
    ELSE IF LastReply(CurReq(p)) = MsgSame THEN "UNCHANGED"
    ELSE IF LastReply(CurReq(p)) = MsgWorse THEN "WOULD_DOWNGRADE"
    ELSE "OTHER"

\* the transition table of the specification, for a class that is none,
\* empty, the resolved tier's or one that carries a number
TableOutcome(c, ft) ==
    IF c \in {None, <<>>} THEN "APPLIED"
    ELSE IF c = ft.flair_class THEN "UNCHANGED"
    ELSE IF NumberIn(c) > ft.karma THEN "WOULD_DOWNGRADE"
    ELSE "APPLIED"

\* C3: with a resolved tier T and current class c the decision is that of
\* the transition table: APPLIED for none or empty, UNCHANGED for T's id,
\* else WOULD_DOWNGRADE exactly when the number in c is > T.minimum_score
C3_DecisionMatchesTable ==
    Decided(1) =>
        LET c == flair["alice"].flair_css_class
            ft == flair_type[1]
        IN  /\ c \in {None, <<>>} \cup NumberedClasses
            /\ Outcome(1) = TableOutcome(c, ft)
            /\ (c \notin {None, <<>>} /\ c # ft.flair_class) =>
                  /\ (Outcome(1) = "WOULD_DOWNGRADE") <=> (NumberIn(c) > ft.karma)
                  /\ (NumberIn(c) <= ft.karma) => (Outcome(1) = "APPLIED")

C3_Witness ==
    /\ pc[1] = "fr_mark"
    /\ flair["alice"].flair_css_class = TierId(1000)
    /\ flair_type[1].karma = 500
    /\ replies[1] = <<MsgWorse>>

(***************************************************************************)
(* Claims about whole runs.                                                *)
(***************************************************************************)
FRpcs == {"fr_karma", "fr_karma_new", "fr_resolve", "fr_too_low", "fr_get",
          "fr_decide", "fr_set", "fr_reply", "fr_mark"}
TRpcs == {"tr_get", "tr_set", "tr_reply", "tr_mark"}

InSeq(q, i) == \E k \in 1..Len(q) : q[k] = i

Msgs == 1..Len(inbox)

\* the threshold of a class that is a tier id; 0 for no tier
TierRank(c) == IF c \in TierIds THEN ThresholdOf(c) ELSE 0

\* C1: for a user whose class is none or a tier id, no step of a sequence
\* of runs lowers the threshold of the user's tier or removes the tier,
\* whatever the karma totals of the requests are
C1_TierNeverDecreases ==
    [][\A u \in Users :
          LET c == flair[u].flair_css_class
              d == flair'[u].flair_css_class
          IN  c \in TierIds \cup {None, <<>>} =>
                  /\ d \in TierIds \cup {None, <<>>}
                  /\ TierRank(d) >= TierRank(c)
                  /\ c \in TierIds => d \in TierIds]_vars

\* a request raised the tier from 500 to 1000, was processed again with
\* a total below every level, and the tier is still held
C1_Witness ==
    \E i \in Msgs :
        /\ replies[i] = <<MsgSetting, MsgTooLow>>
        /\ flair[AuthorOf(i)] = Flair(TierId(1000), TextDev)

\* C4: score-based processing writes the flair only when the outcome is
\* APPLIED; a reply of TOO_LOW, UNCHANGED or WOULD_DOWNGRADE goes out with
\* the FlairState as it was read
C4_NoWriteUnlessApplied ==
    [][\A p \in Procs :
          /\ (pc[p] \in FRpcs /\ flair' # flair) =>
                /\ pc[p] = "fr_set"
                /\ set_new_flair[p]
                /\ flair_type[p] # NoFlairType
                /\ TableOutcome(flair_class[p], flair_type[p]) = "APPLIED"
          /\ (pc[p] \in FRpcs /\ replies' # replies
                 /\ LastReply(CurReq(p))' \in {MsgTooLow, MsgSame, MsgWorse}) =>
                /\ flair' = flair
                /\ pc[p] \in {"fr_too_low", "fr_decide"}
                /\ pc[p] = "fr_decide" =>
                      /\ flair[AuthorOf(CurReq(p))]
                            = Flair(flair_class[p], flair_text[p])
                      /\ TableOutcome(flair_class[p], flair_type[p])
                            \in {"UNCHANGED", "WOULD_DOWNGRADE"}]_vars

C4_Witness ==
    /\ pc[1] = "fr_mark"
    /\ LastReply(CurReq(1)) = MsgWorse
    /\ flair[AuthorOf(CurReq(1))] = Flair(TierId(3000), None)

\* C5: the write of an APPLIED outcome sets the class to the id of the
\* resolved tier and the text to the text the FlairState has at that
\* moment (none if none), and changes no other user's flair
C5_AppliedWriteKeepsText ==
    [][\A p \in Procs :
          (pc[p] = "fr_set" /\ pc'[p] = "fr_reply") =>
              LET a == AuthorOf(CurReq(p))
                  t == Greatest(Qualifying(MaxOf(top_karma[p], new_karma[p])))
              IN  flair' = [flair EXCEPT
                               ![a] = Flair(TierId(t), flair[a].flair_text)]]_vars

C5_Witness ==
    /\ pc[1] = "fr_reply"
    /\ flair[AuthorOf(CurReq(1))] = Flair(TierId(1000), TextDev)

Blanks == {" ", "\t"}
Newlines == {"\n", "\r"}

\* t is the first line of body without the blanks around it
IsTrimmedFirstLine(t, body) ==
    \E i \in 1..(Len(body) + 1), j \in 0..Len(body) :
        /\ i <= j + 1
        /\ t = SubSeq(body, i, j)
        /\ \A k \in 1..(i - 1) : body[k] \in Blanks
        /\ \A k \in i..j : body[k] \notin Newlines
        /\ t # <<>> => (t[1] \notin Blanks /\ t[Len(t)] \notin Blanks)
        /\ \E e \in j..Len(body) :
              /\ \A k \in (j + 1)..e : body[k] \in Blanks
              /\ e = Len(body) \/ body[e + 1] \in Newlines

\* C7: no step of the processing of a text-only request changes a flair
\* class; its write keeps the requester's class and sets the text to the
\* trimmed first line of the body
C7_TextOnlyKeepsClass ==
    [][\A p \in Procs :
          pc[p] \in TRpcs =>
              /\ \A u \in Users :
                    flair'[u].flair_css_class = flair[u].flair_css_class
              /\ flair' # flair => (pc[p] = "tr_set" /\ success'[p])
              /\ (pc[p] = "tr_set" /\ success'[p]) =>
                    LET i == CurText(p)
                    IN  /\ IsTrimmedFirstLine(flair'[AuthorOf(i)].flair_text,
                                              inbox[i].body)
                        /\ \A u \in Users \ {AuthorOf(i)} :
                              flair'[u] = flair[u]]_vars

C7_Witness ==
    /\ pc[1] = "tr_reply"
    /\ success[1]
    /\ inbox[CurText(1)].body = BodyTwoLines
    /\ flair[AuthorOf(CurText(1))] = Flair(TierId(3000), TextDev)

\* the kind of request a message is, by its author and subject
KindOf(i) ==
    IF inbox[i].author = NoAuthor THEN "none"
    ELSE IF inbox[i].subject \in {SubjFlairMe, SubjFlairMeLoud} THEN "score"
    ELSE IF inbox[i].subject \in {SubjChangeText, SubjChangeTextLoud}
         THEN "text"
    ELSE "none"

SameRequest(i, j) ==
    /\ KindOf(i) # "none"
    /\ KindOf(i) = KindOf(j)
    /\ AuthorOf(i) = AuthorOf(j)

AcceptedOf(p, i) ==
    IF KindOf(i) = "score" THEN flair_requests[p] ELSE flair_text_changes[p]

\* C8: in a batch the first 'flair me' and the first 'change flair text'
\* message of a requester are accepted; every later message of the same
\* kind from that requester is not accepted, gets no reply and is marked
\* read with the ignored messages
C8_OnePerRequesterPerBatch ==
    \A p \in Procs :
        pc[p] \notin {"idle", "crashed"} =>
            \A i \in Msgs :
                /\ (KindOf(i) # "none" /\ InSeq(AcceptedOf(p, i), i)) =>
                      \A j \in (i + 1)..Len(inbox) :
                          SameRequest(i, j) =>
                              /\ ~InSeq(AcceptedOf(p, j), j)
                              /\ InSeq(ignored_messages[p], j) \/ read[j]
                              /\ replies[j] = <<>>
                              /\ pc[p] # "mark_ignored" => read[j]
                /\ (KindOf(i) # "none" /\ InSeq(ignored_messages[p], i)) =>
                      \E j \in 1..(i - 1) :
                          SameRequest(j, i) /\ InSeq(AcceptedOf(p, j), j)
                /\ KindOf(i) = "none" =>
                      (~InSeq(flair_requests[p], i)
                          /\ ~InSeq(flair_text_changes[p], i))

C8_Witness ==
    /\ pc[1] = "done"
    /\ Len(inbox) = 2
    /\ SameRequest(1, 2)
    /\ KindOf(1) = "score"
    /\ read[1] /\ read[2]
    /\ Len(replies[1]) = 1
    /\ replies[2] = <<>>

Accepted(p, i) == InSeq(flair_requests[p], i) \/ InSeq(flair_text_changes[p], i)

\* C9: a step that marks an accepted message read finds its reply sent;
\* an accepted message without a reply is unread
C9_ReadOnlyAfterReply ==
    [][\A p \in Procs : \A i \in Msgs :
          Accepted(p, i) =>
              /\ (~read[i] /\ read'[i]) =>
                    (replies[i] # <<>> /\ replies'[i] = replies[i])
              /\ replies[i] = <<>> => ~read[i]]_vars

\* a run crashed between the write and the reply; the next run found the
\* message unread, replied and marked it read
C9_Witness ==
    /\ runs = 2
    /\ pc[1] = "done"
    /\ \E i \in Msgs : Accepted(1, i) /\ read[i] /\ replies[i] = <<MsgSame>>

\* a message no run accepts: without author, with another subject, or
\* behind a message of the same requester and kind
Discardable(i) ==
    \/ KindOf(i) = "none"
    \/ \E j \in 1..(i - 1) : SameRequest(j, i)

\* C10 as amended: a message marked read stays read and gets no further
\* reply (the next run does not process it again), and a request that has
\* had no reply is unread, whatever step a run was killed at
C10_ConsumedNotReprocessed ==
    [][\A i \in Msgs :
          /\ read[i] => (read'[i] /\ replies'[i] = replies[i])
          /\ (replies'[i] = <<>> /\ ~Discardable(i)) => ~read'[i]]_vars

\* a run was killed between the reply and mark_read: the message stayed
\* unread and the next run replied to it again
C10_Witness ==
    \E i \in Msgs : Len(replies[i]) = 2 /\ read[i] /\ runs = 2

\* C10 as stated: after a kill every message replied to is consumed, no
\* message is replied to twice, and a request without a reply is unread
C10_RepliedIsConsumed ==
    /\ \A p \in Procs :
          pc[p] = "crashed" =>
              \A i \in Msgs :
                  /\ replies[i] # <<>> => read[i]
                  /\ (replies[i] = <<>> /\ ~Discardable(i)) => ~read[i]
    /\ \A i \in Msgs : Len(replies[i]) <= 1

(***************************************************************************)
(* The failures of the flair write.                                        *)
(***************************************************************************)
\* C11 as stated: a failure of the flair write of process_flair_requests is
\* caught at the write, so that no run ends by its exception (the requester
\* gets a failure reply and the rest of the batch is processed)
C11_ClassWriteFailureCaught ==
    \A p \in Procs : pc[p] # "FlairSetError"

\* C12: a failure of the flair write of a text request is caught: the step
\* of the write ends at the reply and not in an exception, and leaves the
\* flair as it was; the reply is then the one of the problem and not the
\* one of success; the message is then marked read and the run goes on
\* with the next text request, or else with the flair requests
C12_TextWriteFailureCaught ==
    [][\A p \in Procs :
          /\ (pc[p] = "tr_set" /\ pc'[p] # "crashed") =>
                 /\ pc'[p] = "tr_reply"
                 /\ ~success'[p] => flair' = flair
          /\ (pc[p] = "tr_reply" /\ ~success[p] /\ pc'[p] # "crashed") =>
                 /\ pc'[p] = "tr_mark"
                 /\ replies'[CurText(p)] =
                        Append(replies[CurText(p)], MsgTextProblem)
          /\ (pc[p] = "tr_mark" /\ pc'[p] # "crashed") =>
                 /\ read'[CurText(p)]
                 /\ pc'[p] = IF pos[p] < Len(flair_text_changes[p])
                             THEN "tr_get"
                             ELSE IF flair_requests[p] # <<>>
                                  THEN "fr_karma" ELSE "done"]_vars

\* the write of a text request failed, its requester got the reply of the
\* problem, the message was marked read, and a flair request of the same
\* batch was then answered
C12_Witness ==
    /\ runs = 1
    /\ \E i, j \in Msgs :
          /\ replies[i] = <<MsgTextProblem>> /\ read[i]
          /\ KindOf(j) = "score" /\ replies[j] # <<>>

(***************************************************************************)
(* The order of a batch.                                                   *)
(***************************************************************************)
\* C13: while a run is in the loop over the text requests no flair request
\* of its batch has been touched (no reply, not read), and once it is in
\* the loop over the flair requests (karma, flair read, write, reply) every
\* text request of its batch has had its reply and is marked read
C13_TextsBeforeScores ==
    \A p \in Procs :
        /\ pc[p] \in TRpcs =>
               \A k \in 1..Len(flair_requests[p]) :
                   /\ replies[flair_requests[p][k]] = <<>>
                   /\ ~read[flair_requests[p][k]]
        /\ pc[p] \in FRpcs =>
               \A k \in 1..Len(flair_text_changes[p]) :
                   /\ replies[flair_text_changes[p][k]] # <<>>
                   /\ read[flair_text_changes[p][k]]

\* the flair request arrived before the text request, and the run is at the
\* karma of the flair request with the text request answered and read
C13_Witness ==
    /\ pc[1] = "fr_karma"
    /\ flair_requests[1] # <<>> /\ flair_text_changes[1] # <<>>
    /\ flair_requests[1][1] < flair_text_changes[1][1]
    /\ read[flair_text_changes[1][1]]
    /\ replies[flair_text_changes[1][1]] # <<>>

\* C14: a message a run discards (no author, another subject, or behind a
\* message of the same requester and kind) is in no dictionary of the run,
\* so that no flair is read or written for it, and never has a reply; the
\* discarded messages of a run are exactly those of its ignored_messages;
\* they are unread until the one mark_read over the list and read from
\* then on, and at that mark_read no accepted request of the run has been
\* processed; a message without author does not end the run
C14_DiscardedOnlyConsumed ==
    \A p \in Procs :
        pc[p] \notin Idle =>
            /\ \A i \in Msgs :
                   /\ InSeq(ignored_messages[p], i) => Discardable(i)
                   /\ Discardable(i) =>
                          /\ ~Accepted(p, i)
                          /\ replies[i] = <<>>
                          /\ InSeq(ignored_messages[p], i) \/ read[i]
                          /\ pc[p] # "mark_ignored" => read[i]
                   /\ (pc[p] = "mark_ignored" /\ Accepted(p, i)) => ~read[i]
                   /\ (pc[p] = "mark_ignored"
                       /\ InSeq(ignored_messages[p], i)) => ~read[i]
            /\ \A i \in Msgs :
                   (inbox[i].author = NoAuthor /\ pc[p] # "mark_ignored") =>
                       read[i]

\* the message without author came first and is read without a reply while
\* the run processes the accepted request behind it
C14_Witness ==
    /\ pc[1] \in {"tr_get", "fr_karma"}
    /\ \E i, j \in Msgs :
          /\ i < j
          /\ inbox[i].author = NoAuthor /\ read[i] /\ replies[i] = <<>>
          /\ Accepted(1, j) /\ ~read[j]

(***************************************************************************)
(* The karma of a requester.                                               *)
(***************************************************************************)
\* the sum of the scores of the things of a listing whose community is
\* the target, letter for letter
ScoresIn(things, target) ==
    LET hits == {k \in 1..Len(things) : things[k].subreddit = target}
        Sum[S \in SUBSET hits] ==
            IF S = {} THEN 0
            ELSE LET k == CHOOSE x \in S : TRUE
                 IN  things[k].score + Sum[S \ {k}]
    IN  Sum[hits]

TotalListed(listing) ==
    ScoresIn(listing.comments, "cscareerquestions")
    + ScoresIn(listing.submissions, "cscareerquestions")

\* the class of the tier of the larger total of the contributions, or the
\* class as it is where the total is below every tier
ClassToReach(c) ==
    LET k == MaxOf(TotalListed(contributions["top"]),
                   TotalListed(contributions["new"]))
    IN  IF Qualifying(k) = {} THEN c ELSE TierId(Greatest(Qualifying(k)))

\* C15: with the same contributions listed each time, a flair request that
\* is processed again writes nothing: a step changes the flair only before
\* any reply to the request and only from another class to the class of
\* the resolved tier, keeping the text; and once the request has had a
\* reply, or the class is the one of the resolved tier, no step changes
\* the flair and no run comes to the write again
C15_RetryWritesNothing ==
    [][LET f == flair["alice"]
           reach == ClassToReach(f.flair_css_class)
       IN  /\ flair' # flair =>
                  /\ replies[1] = <<>>
                  /\ f.flair_css_class # reach
                  /\ flair' = [flair EXCEPT !["alice"] =
                                   Flair(reach, f.flair_text)]
           /\ (replies[1] # <<>> \/ f.flair_css_class = reach) =>
                  /\ flair' = flair
                  /\ pc'[1] # "fr_set"]_vars

\* the first processing set the flair and replied, the run was killed
\* before mark_read, and the second processing replied without a write
C15_Witness ==
    /\ runs = 2
    /\ pc[1] = "fr_mark"
    /\ replies[1] = <<MsgSetting, MsgSame>>
    /\ flair["alice"] = Flair(TierId(1000), TextDev)

\* C16: the total a call of calculate_subreddit_karma returns is the sum of
\* the scores of the listed comments and submissions whose subreddit is
\* the configured one letter for letter, negative or zero as it may be,
\* and the two calls write no flair, send no reply and mark nothing read
C16_TotalIsExactSum ==
    /\ pc[1] \in {"fr_karma_new", "fr_resolve"} =>
           top_karma[1] = TotalListed(contributions[listing_type])
    /\ pc[1] = "fr_resolve" =>
           new_karma[1] = TotalListed(contributions["new"])
    /\ flair = [u \in Users |-> Flair(None, None)]
    /\ replies[1] = <<>>
    /\ ~read[1]

\* a negative total of a listing that has a thing of the subreddit spelt
\* with other case, and a zero total of a listing that is not empty
C16_Witness ==
    /\ pc[1] = "fr_resolve"
    /\ top_karma[1] < 0
    /\ \E k \in 1..Len(contributions[listing_type].comments) :
          contributions[listing_type].comments[k].subreddit
              = "CSCareerQuestions"
    /\ new_karma[1] = 0
    /\ Len(contributions["new"].submissions) = MaxListed

\* C17: a call of calculate_subreddit_karma with a listing type other than
\* 'top' and 'new' raises TypeError and returns no total, and the
\* exception ends the run of its caller: nothing is assigned, replied or
\* marked; with 'top' or 'new' no TypeError is raised
C17_UnsupportedListingRaises ==
    /\ (listing_type \notin {"top", "new"} /\ pc[1] # "fr_karma") =>
           /\ pc[1] = "TypeError"
           /\ top_karma[1] = 0 /\ new_karma[1] = 0 /\ karma[1] = 0
           /\ replies[1] = <<>> /\ ~read[1]
    /\ listing_type \in {"top", "new"} => pc[1] # "TypeError"

\* the call with 'hot' over a listing whose things would sum to a total
\* other than zero ended the run with the TypeError
C17_Witness ==
    /\ listing_type = "hot"
    /\ pc[1] = "TypeError"
    /\ TotalListed(contributions["hot"]) # 0

(***************************************************************************)
(* Runs that overlap.                                                      *)
(***************************************************************************)
\* C18: with two runs at work the write of a flair request stores the class
\* of the resolved tier with the text its run has read, whatever the flair
\* holds by then: where the two differ, another run has been at work
\* since the read, and the write of this run undoes what that run wrote
C18_WriteUsesTextAsRead ==
    [][\A p \in Procs :
          (pc[p] = "fr_set" /\ pc'[p] = "fr_reply") =>
              LET a == AuthorOf(CurReq(p))
              IN  /\ flair'[a] = Flair(flair_type[p].flair_class, flair_text[p])
                  /\ flair[a].flair_text # flair_text[p] =>
                         /\ \E q \in Procs \ {p} : pc[q] # "idle"
                         /\ flair'[a].flair_text # flair[a].flair_text]_vars

\* both runs are over; the text request was answered once, with 'Flair
\* text changed', and is read, and the flair request was answered with
\* 'Setting new flair'; the flair has the tier's class and no text: the
\* write of the flair request has undone the write of the text request
C18_Witness ==
    /\ \A p \in Procs : pc[p] = "done"
    /\ replies[2] = <<MsgTextChanged>> /\ read[2]
    /\ MsgSetting \in {replies[1][k] : k \in 1..Len(replies[1])}
    /\ flair["alice"] = Flair(TierId(1000), None)

(***************************************************************************)
(* A batch as a whole.                                                     *)
(***************************************************************************)
\* C19: a run has changed the text for a text request of a requester and
\* then set the flair for the flair request of the same requester: right
\* after the write the flair has the class of the tier of the larger total
\* and for text the first line of the text request, and it has a tier's
\* class and that text for the rest of the run
C19_TextSurvivesTier ==
    \A p \in Procs :
        pc[p] \in FRpcs \cup {"done"} =>
            \A k \in 1..Len(flair_requests[p]) :
            \A m \in 1..Len(flair_text_changes[p]) :
                LET j == flair_requests[p][k]
                    i == flair_text_changes[p][m]
                    a == AuthorOf(j)
                IN  (/\ AuthorOf(i) = a
                     /\ replies[i] # <<>> /\ LastReply(i) = MsgTextChanged
                     /\ \/ pc[p] = "fr_reply" /\ pos[p] = k
                        \/ replies[j] # <<>> /\ LastReply(j) = MsgSetting) =>
                        /\ flair[a].flair_css_class \in TierIds
                        /\ IsTrimmedFirstLine(flair[a].flair_text,
                                              inbox[i].body)
                        /\ (pc[p] = "fr_reply" /\ pos[p] = k) =>
                               flair[a].flair_css_class =
                                   TierId(Greatest(Qualifying(
                                       MaxOf(top_karma[p], new_karma[p]))))

\* the flair request came before the text request; the flair had neither
\* class nor text; both are answered, the flair request was processed with
\* no class and the new text read, and the flair has the tier's class and
\* the first line of the text request
C19_Witness ==
    /\ pc[1] = "fr_mark" /\ runs = 1
    /\ flair_class[1] = None /\ flair_text[1] = TextDev
    /\ KindOf(1) = "score" /\ KindOf(2) = "text"
    /\ AuthorOf(1) = AuthorOf(2)
    /\ replies[1] = <<MsgSetting>> /\ replies[2] = <<MsgTextChanged>>
    /\ flair[AuthorOf(1)] = Flair(TierId(1000), TextDev)

\* the text request at position m of run p is behind its mark_read, and
\* behind its reply
TextConsumed(p, m) ==
    \/ pc[p] \in TRpcs /\ m < pos[p]
    \/ pc[p] \in FRpcs \cup {"done"}

TextReplied(p, m) ==
    TextConsumed(p, m) \/ (pc[p] = "tr_mark" /\ m = pos[p])

\* the flair request at position k of run p is behind its mark_read, and
\* behind its reply
ScoreConsumed(p, k) ==
    \/ pc[p] \in FRpcs /\ k < pos[p]
    \/ pc[p] = "done"

ScoreReplied(p, k) ==
    ScoreConsumed(p, k) \/ (pc[p] = "fr_mark" /\ k = pos[p])

\* C20: without a kill and without a failure of the service, in the first
\* run over an inbox (no earlier run has replied to or marked anything)
\* each accepted message has no reply up to the reply of its loop body
\* and one reply from then on, is unread up to the mark_read that follows
\* that reply and read from then on, and a message that is not accepted
\* is among the ignored ones and has no reply; and whenever a run is over
\* every message is read
C20_OneReplyThenConsumed ==
    \A p \in Procs :
        /\ pc[p] = "done" => \A i \in Msgs : read[i]
        /\ (runs = 1 /\ pc[p] \notin Idle \ {"done"}) =>
               /\ \A m \in 1..Len(flair_text_changes[p]) :
                      LET i == flair_text_changes[p][m]
                      IN  /\ read[i] <=> TextConsumed(p, m)
                          /\ Len(replies[i]) =
                                 IF TextReplied(p, m) THEN 1 ELSE 0
               /\ \A k \in 1..Len(flair_requests[p]) :
                      LET j == flair_requests[p][k]
                      IN  /\ read[j] <=> ScoreConsumed(p, k)
                          /\ Len(replies[j]) =
                                 IF ScoreReplied(p, k) THEN 1 ELSE 0
               /\ \A i \in Msgs :
                      ~Accepted(p, i) =>
                          /\ replies[i] = <<>>
                          /\ InSeq(ignored_messages[p], i)
                          /\ read[i] <=> pc[p] # "mark_ignored"

\* a run over a text request and a flair request is over: each has one
\* reply and is read
C20_Witness ==
    /\ pc[1] = "done" /\ runs = 1
    /\ \E i, j \in Msgs :
          /\ KindOf(i) = "text" /\ KindOf(j) = "score"
          /\ Len(replies[i]) = 1 /\ Len(replies[j]) = 1
          /\ read[i] /\ read[j]

====
